---- MODULE Spec2Model ----
(***************************************************************************)
(* A model of dependency_parser.py: the pipeline                           *)
(*   load_config -> create_virtual_env -> detect_system_type ->            *)
(*   find_python_files -> extract_dependencies -> filter_dependencies ->   *)
(*   validate_dependencies -> adjust_dependencies ->                       *)
(*   generate_requirements_txt -> print.                                   *)
(*                                                                         *)
(* Strings.  A Python str is a sequence of chunks.  A chunk is a piece of  *)
(* text that none of the program's string tests looks inside; every piece  *)
(* the program does test (a leading "_", the " -f " marker, the "." of a   *)
(* dotted module name, the "/" of a path, surrounding blanks, the ".py"    *)
(* suffix, the "linux" / "windows" / "gpu" parts of a system type) is a    *)
(* chunk of its own.  startswith, endswith, `in`, split, strip and lower   *)
(* are computed on these sequences as the str methods compute them on      *)
(* characters.                                                             *)
(***************************************************************************)
EXTENDS Integers, Sequences, FiniteSets, TLC

VARIABLES
    pc,                      \* the statement of __main__ (or of the running function) to execute next
    config,                  \* the loaded configuration (config_v1.yml)
    fs,                      \* the file system: directories, files, and what reading each file gives
    platform_system,         \* what platform.system() answers on this machine
    walk,                    \* find_python_files: position in `paths` and in os.walk(path)
    python_files,            \* find_python_files: the list built so far / returned
    fidx,                    \* extract_dependencies: index of the file read next
    dependencies,            \* the raw, then the filtered, set of module names
    todo,                    \* validate_dependencies: the names the for loop has still to visit
    validated_dependencies,  \* validate_dependencies: the set built so far / returned
    cache,                   \* the lru_cache of check_pypi_package
    requests,                \* the calls of check_pypi_package and search_pypi_package, in order
    system_type,             \* the platform class returned by detect_system_type
    adjusted_dependencies,   \* the set returned by adjust_dependencies
    wtodo,                   \* generate_requirements_txt: the entries still to write
    manifest,                \* results/requirements.txt, as a sequence of lines
    wstatus                  \* what generate_requirements_txt logged: "none", "ok" or "failed"

vars == <<pc, config, fs, platform_system, walk, python_files, fidx, dependencies, todo,
          validated_dependencies, cache, requests, system_type, adjusted_dependencies,
          wtodo, manifest, wstatus>>

---------------------------------------------------------------------------
(* Bounds of the model. *)

MaxDeps == 2
MaxResults == 2
MaxFiles == 2
MaxStmts == 2
MaxEntries == 3

---------------------------------------------------------------------------
(* Python's str methods, on chunk sequences. *)

Min(S) == CHOOSE x \in S : \A y \in S : x <= y

SeqsUpTo(S, n) == UNION {[1..k -> S] : k \in 0..n}

SetsUpTo(S, n) == {T \in SUBSET S : Cardinality(T) <= n}

Range(f) == {f[x] : x \in DOMAIN f}

startswith(s, prefix) ==
    Len(s) >= Len(prefix) /\ SubSeq(s, 1, Len(prefix)) = prefix

endswith(s, suffix) ==
    Len(s) >= Len(suffix) /\ SubSeq(s, Len(s) - Len(suffix) + 1, Len(s)) = suffix

\* `sub in s`
contains(sub, s) ==
    \E i \in 1..(Len(s) - Len(sub) + 1) : SubSeq(s, i, i + Len(sub) - 1) = sub

\* s.find(sub) + 1: the position of the first occurrence, 0 when there is none
find(s, sub) ==
    IF contains(sub, s)
    THEN Min({i \in 1..(Len(s) - Len(sub) + 1) : SubSeq(s, i, i + Len(sub) - 1) = sub})
    ELSE 0

RECURSIVE split(_, _)
split(s, sep) ==
    IF find(s, sep) = 0
    THEN <<s>>
    ELSE <<SubSeq(s, 1, find(s, sep) - 1)>>
         \o split(SubSeq(s, find(s, sep) + Len(sep), Len(s)), sep)

Whitespace == {" ", "    ", "\n", "\t"}

RECURSIVE lstrip(_)
lstrip(s) == IF s # <<>> /\ Head(s) \in Whitespace THEN lstrip(Tail(s)) ELSE s

RECURSIVE rstrip(_)
rstrip(s) ==
    IF s # <<>> /\ s[Len(s)] \in Whitespace THEN rstrip(SubSeq(s, 1, Len(s) - 1)) ELSE s

strip(s) == rstrip(lstrip(s))

LowerChunk(c) ==
    CASE c = "Linux" -> "linux"
      [] c = "Windows" -> "windows"
      [] c = "Darwin" -> "darwin"
      [] c = "Java" -> "java"
      [] c = "Foo" -> "foo"
      [] OTHER -> c

lower(s) == [i \in 1..Len(s) |-> LowerChunk(s[i])]

\* Python's None, and the truth value of a str-or-None
None == <<"<None>">>

Truthy(x) == x # None /\ x # <<>>

---------------------------------------------------------------------------
(* Names. *)

cv2 == <<"cv2">>
skimage == <<"skimage">>
bs4 == <<"bs4">>
opencv_python == <<"opencv-python">>
scikit_image == <<"scikit-image">>
beautifulsoup4 == <<"beautifulsoup4">>
foo == <<"foo">>
Foo == <<"Foo">>
numpy == <<"numpy">>
private == <<"_", "private">>
bar_ == <<"_", "bar">>
torch == <<"torch">>
torchvision == <<"torchvision">>
ultralytics == <<"ultralytics">>
marker == <<" -f ">>
find_links == <<"https://download.pytorch.org/whl/torch_stable.html">>
torch_cu117 == <<"torch==2.0.1+cu117">> \o marker \o find_links
torch_cpu == <<"torch==2.0.1+cpu">> \o marker \o find_links
torchvision_cu117 == <<"torchvision==0.15.2+cu117">> \o marker \o find_links
torchvision_cpu == <<"torchvision==0.15.2+cpu">> \o marker \o find_links
\* a name that holds the marker twice
twice == <<"a">> \o marker \o <<"b">> \o marker \o <<"c">>

manual_package_mapping ==
    (cv2 :> opencv_python) @@ (skimage :> scikit_image) @@ (bs4 :> beautifulsoup4)

---------------------------------------------------------------------------
(* The package index: check_pypi_package and search_pypi_package. *)

\* what requests.get gives: status 200, another status, or a RequestException
HttpAnswers == {"200", "404", "RequestException"}

\* the names the index search can return
CandUniverse == {foo, Foo, bar_, cv2, twice}

\* what client.search gives: a list of results, or an exception
SearchReplies ==
    {[fault |-> TRUE, results |-> <<>>]}
    \cup {[fault |-> FALSE, results |-> r] : r \in SeqsUpTo(CandUniverse, MaxResults)}

EmptyCache == [n \in {} |-> TRUE]

\* check_pypi_package under lru_cache: a cached name is answered without a request
check_pypi_package_nocache(package_name, c, answer) ==
    [result |-> (answer = "200"),
     cache |-> [n \in DOMAIN c \cup {package_name} |-> IF n = package_name THEN (answer = "200") ELSE c[n]],
     answer |-> answer,
     sent |-> TRUE]

check_pypi_package(package_name, c, answer) ==
    IF package_name \in DOMAIN c
    THEN [result |-> c[package_name], cache |-> c, answer |-> "cached", sent |-> FALSE]
    ELSE [result |-> (answer = "200"),
          cache |-> [n \in DOMAIN c \cup {package_name} |->
                        IF n = package_name THEN (answer = "200") ELSE c[n]],
          answer |-> answer,
          sent |-> TRUE]

search_pypi_package(module_name, reply) ==
    IF reply.fault
    THEN None
    ELSE LET search_results == reply.results
             exact == {i \in 1..Len(search_results) :
                          lower(module_name) = lower(search_results[i])}
         IN  IF exact # {} THEN search_results[Min(exact)]
             ELSE IF search_results # <<>> THEN search_results[1]
             ELSE None

\* one entry of `requests`
Call(op, arg, dep, k) ==
    [op |-> op, arg |-> arg, dep |-> dep, answer |-> k.answer, result |-> k.result,
     sent |-> k.sent, found |-> None]

SearchCall(dep, package_name) ==
    [op |-> "search", arg |-> dep, dep |-> dep, answer |-> "search", result |-> FALSE, sent |-> TRUE,
     found |-> package_name]

---------------------------------------------------------------------------
(* validate_dependencies. *)

\* validate_one with the index asked before the manual table is consulted
validate_one_index_first(dep, validated, c, a1, reply, a2) ==
    IF startswith(dep, <<"_">>)
    THEN [validated |-> validated, cache |-> c, calls |-> <<>>]
    ELSE LET k1 == check_pypi_package(dep, c, a1)
         IN  IF k1.result
             THEN [validated |-> validated \cup {dep}, cache |-> k1.cache,
                   calls |-> <<Call("check", dep, dep, k1)>>]
             ELSE IF dep \in DOMAIN manual_package_mapping
             THEN [validated |-> validated \cup {manual_package_mapping[dep]}, cache |-> k1.cache,
                   calls |-> <<Call("check", dep, dep, k1)>>]
             ELSE [validated |-> validated, cache |-> k1.cache,
                   calls |-> <<Call("check", dep, dep, k1)>>]

\* validate_one with the search candidate added without its own existence check
validate_one_unchecked(dep, validated, c, a1, reply, a2) ==
    IF startswith(dep, <<"_">>)
    THEN [validated |-> validated, cache |-> c, calls |-> <<>>]
    ELSE IF dep \in DOMAIN manual_package_mapping
    THEN [validated |-> validated \cup {manual_package_mapping[dep]}, cache |-> c, calls |-> <<>>]
    ELSE LET k1 == check_pypi_package(dep, c, a1)
         IN  IF k1.result
             THEN [validated |-> validated \cup {dep}, cache |-> k1.cache,
                   calls |-> <<Call("check", dep, dep, k1)>>]
             ELSE LET package_name == search_pypi_package(dep, reply)
                      before == <<Call("check", dep, dep, k1), SearchCall(dep, package_name)>>
                  IN  IF ~Truthy(package_name)
                      THEN [validated |-> validated, cache |-> k1.cache, calls |-> before]
                      ELSE [validated |-> validated \cup {package_name}, cache |-> k1.cache,
                            calls |-> before]

\* the body of the for loop, for one dep; a1, reply, a2 are what the index answers
\* to the calls the body makes (an answer is unused when the call is not made or
\* is served from the cache)
validate_one(dep, validated, c, a1, reply, a2) ==
    IF startswith(dep, <<"_">>)
    THEN [validated |-> validated, cache |-> c, calls |-> <<>>]
    ELSE IF dep \in DOMAIN manual_package_mapping
    THEN [validated |-> validated \cup {manual_package_mapping[dep]}, cache |-> c, calls |-> <<>>]
    ELSE LET k1 == check_pypi_package(dep, c, a1)
         IN  IF k1.result
             THEN [validated |-> validated \cup {dep}, cache |-> k1.cache,
                   calls |-> <<Call("check", dep, dep, k1)>>]
             ELSE LET package_name == search_pypi_package(dep, reply)
                      k2 == check_pypi_package(package_name, k1.cache, a2)
                      before == <<Call("check", dep, dep, k1), SearchCall(dep, package_name)>>
                  IN  IF ~Truthy(package_name)
                      THEN [validated |-> validated, cache |-> k1.cache, calls |-> before]
                      ELSE IF k2.result
                      THEN [validated |-> validated \cup {package_name}, cache |-> k2.cache,
                            calls |-> before \o <<Call("check", package_name, dep, k2)>>]
                      ELSE [validated |-> validated, cache |-> k2.cache,
                            calls |-> before \o <<Call("check", package_name, dep, k2)>>]

ValidateEnter ==
    /\ pc = "validate_dependencies"
    /\ validated_dependencies' = {}
    /\ todo' = dependencies
    /\ pc' = "validate_loop"
    /\ UNCHANGED <<config, fs, platform_system, walk, python_files, fidx, dependencies, cache,
                   requests, system_type, adjusted_dependencies, wtodo, manifest, wstatus>>

\* the index is asked only by the calls the body makes: an answer is drawn for a
\* request that is sent, and a reply for a search that is run
Asked(dep, c) ==
    ~startswith(dep, <<"_">>) /\ dep \notin DOMAIN manual_package_mapping /\ dep \notin DOMAIN c

Searched(dep, c, a1) ==
    /\ ~startswith(dep, <<"_">>)
    /\ dep \notin DOMAIN manual_package_mapping
    /\ ~check_pypi_package(dep, c, a1).result

ValidateStep ==
    /\ pc = "validate_loop"
    /\ \E dep \in todo :
       \E a1 \in (IF Asked(dep, cache) THEN HttpAnswers ELSE {"200"}) :
       \E reply \in (IF Searched(dep, cache, a1) THEN SearchReplies
                     ELSE {[fault |-> TRUE, results |-> <<>>]}) :
       \E a2 \in (IF Searched(dep, cache, a1) /\ Truthy(search_pypi_package(dep, reply))
                  THEN HttpAnswers ELSE {"200"}) :
          LET r == validate_one(dep, validated_dependencies, cache, a1, reply, a2)
          IN  /\ validated_dependencies' = r.validated
              /\ cache' = r.cache
              /\ requests' = requests \o r.calls
              /\ todo' = todo \ {dep}
    /\ UNCHANGED <<pc, config, fs, platform_system, walk, python_files, fidx, dependencies,
                   system_type, adjusted_dependencies, wtodo, manifest, wstatus>>

ValidateReturn ==
    /\ pc = "validate_loop"
    /\ todo = {}
    /\ pc' = "adjust_dependencies"
    /\ UNCHANGED <<config, fs, platform_system, walk, python_files, fidx, dependencies, todo,
                   validated_dependencies, cache, requests, system_type, adjusted_dependencies,
                   wtodo, manifest, wstatus>>

---------------------------------------------------------------------------
(* Values the stages that a specification does not run leave untouched. *)

NoConfig ==
    [loaded |-> FALSE, project_paths |-> <<>>, include_folders |-> {}, ignore_dirs |-> {},
     gpu_required |-> FALSE]

NoFs == [dirs |-> {}, files |-> {}, content |-> <<>>]

Idle ==
    /\ walk = [p |-> 1, i |-> 1]
    /\ python_files = <<>>
    /\ fidx = 1
    /\ todo = {}
    /\ validated_dependencies = {}
    /\ cache = EmptyCache
    /\ requests = <<>>
    /\ system_type = <<>>
    /\ adjusted_dependencies = {}
    /\ wtodo = {}
    /\ manifest = <<>>
    /\ wstatus = "none"

---------------------------------------------------------------------------
(* validate_dependencies on every set of at most MaxDeps module names. *)

DepUniverse == {cv2, skimage, bs4, private, foo, beautifulsoup4}

InitValidate ==
    /\ pc = "validate_dependencies"
    /\ config = NoConfig
    /\ fs = NoFs
    /\ platform_system = <<"Linux">>
    /\ dependencies \in SetsUpTo(DepUniverse, MaxDeps)
    /\ Idle

NextValidate == ValidateEnter \/ ValidateStep \/ ValidateReturn

SpecValidate == InitValidate /\ [][NextValidate]_vars

---------------------------------------------------------------------------
(* Claims about validate_dependencies, under SpecValidate. *)

ValidateReturned == pc = "adjust_dependencies"

IsUnderscore(name) == name[1] = "_"

\* C1 as stated: every input name that is a key of the manual mapping table has
\* its mapped package in the returned set, and no index lookup (existence check
\* or search) is made for that name.
C1_ManualNoLookupOfName ==
    ValidateReturned =>
        \A dep \in dependencies \cap DOMAIN manual_package_mapping :
            /\ manual_package_mapping[dep] \in validated_dependencies
            /\ \A i \in DOMAIN requests : requests[i].arg # dep

\* C1 amended: every input name that is a key of the manual mapping table has its
\* mapped package in the returned set whatever the index answers, and no index
\* lookup is made while that name is being resolved (the same string can still be
\* checked as the search candidate of another module).
C1_ManualAlwaysResolves ==
    ValidateReturned =>
        \A dep \in dependencies \cap DOMAIN manual_package_mapping :
            /\ manual_package_mapping[dep] \in validated_dependencies
            /\ \A i \in DOMAIN requests : requests[i].dep # dep

C1_Witness ==
    /\ ValidateReturned
    /\ cv2 \in dependencies
    /\ opencv_python \in validated_dependencies
    /\ \E i \in DOMAIN requests : requests[i].answer = "RequestException"
    /\ \E i \in DOMAIN requests : requests[i].op = "search" /\ requests[i].found = None

\* C2: the validated set never holds a name that begins with an underscore.
C2_NoUnderscoreValidated ==
    \A p \in validated_dependencies : ~IsUnderscore(p)

\* an existence request for a module name that failed with a network error
NetFailed(i) ==
    /\ requests[i].op = "check"
    /\ requests[i].sent
    /\ requests[i].answer = "RequestException"
    /\ requests[i].arg = requests[i].dep

AllProcessed ==
    /\ todo = {}
    /\ \A d \in dependencies :
          \/ IsUnderscore(d)
          \/ d \in DOMAIN manual_package_mapping /\ manual_package_mapping[d] \in validated_dependencies
          \/ \E i \in DOMAIN requests : requests[i].op = "check" /\ requests[i].arg = d

\* two names of one package: the index compares names without regard to case
SamePackage(a, b) == lower(a) = lower(b)

\* C9 as stated: after an existence check for a module name fails with a network
\* error, no further existence request is sent for that same package, the
\* dependency is left out of the validated set, and the rest is processed.
C9_NoRetrySamePackage ==
    \A i \in DOMAIN requests :
        NetFailed(i) =>
            /\ \A j \in DOMAIN requests :
                  j > i => ~(/\ requests[j].op = "check"
                             /\ requests[j].sent
                             /\ SamePackage(requests[j].arg, requests[i].arg))
            /\ ValidateReturned =>
                  /\ \A p \in validated_dependencies : ~SamePackage(p, requests[i].arg)
                  /\ AllProcessed

\* C9 amended: after an existence check for a module name fails with a network
\* error, no further existence request is sent for that same name string (a
\* later check of it is answered from the cache), the name is in the validated
\* set only as a value of the manual mapping table, and the rest is processed.
C9_NoRetrySameName ==
    \A i \in DOMAIN requests :
        NetFailed(i) =>
            /\ \A j \in DOMAIN requests :
                  j > i => ~(/\ requests[j].op = "check"
                             /\ requests[j].sent
                             /\ requests[j].arg = requests[i].arg)
            /\ ValidateReturned =>
                  /\ requests[i].arg \in validated_dependencies
                        => requests[i].arg \in Range(manual_package_mapping)
                  /\ AllProcessed

C9_Witness ==
    /\ ValidateReturned
    /\ \E i \in DOMAIN requests :
          /\ NetFailed(i)
          /\ \E j \in DOMAIN requests :
                /\ j > i
                /\ requests[j].op = "check"
                /\ requests[j].arg = requests[i].arg
                /\ ~requests[j].sent
    /\ Cardinality(dependencies) > 1

\* C10: the resolver's order.  No lookup is made for an underscore name or a
\* manually mapped name; a search follows a failed exact-name check of the same
\* name; a candidate's check follows the search that returned it; and every
\* validated name is a manual mapping value or a name whose existence check
\* succeeded in this run.
C10_ResolverOrder ==
    /\ \A p \in validated_dependencies :
          \/ p \in Range(manual_package_mapping)
          \/ \E i \in DOMAIN requests :
                requests[i].op = "check" /\ requests[i].arg = p /\ requests[i].result
    /\ \A i \in DOMAIN requests :
          /\ ~IsUnderscore(requests[i].dep)
          /\ requests[i].dep \notin DOMAIN manual_package_mapping
          /\ requests[i].op = "search" =>
                /\ i > 1
                /\ requests[i - 1].op = "check"
                /\ requests[i - 1].arg = requests[i].arg
                /\ requests[i - 1].dep = requests[i].dep
                /\ ~requests[i - 1].result
          /\ requests[i].op = "check" =>
                \/ /\ requests[i].arg = requests[i].dep
                   /\ i > 1 => requests[i - 1].dep # requests[i].dep
                \/ /\ i > 1
                   /\ requests[i - 1].op = "search"
                   /\ requests[i - 1].dep = requests[i].dep
                   /\ requests[i - 1].found = requests[i].arg

C10_Witness ==
    /\ ValidateReturned
    /\ Foo \in validated_dependencies
    /\ \E i \in DOMAIN requests : requests[i].op = "search" /\ requests[i].found = Foo
    /\ \E i \in DOMAIN requests : requests[i].op = "search" /\ requests[i].found = bar_
    /\ bar_ \notin validated_dependencies

---------------------------------------------------------------------------
(* detect_system_type and adjust_dependencies. *)

linux_gpu == <<"linux", "-", "gpu">>
linux_cpu == <<"linux", "-", "cpu">>
windows_gpu == <<"windows", "-", "gpu">>
windows_cpu == <<"windows", "-", "cpu">>

\* the values of platform.system(); the empty string when it cannot be determined
PlatformSystems == {<<"Linux">>, <<"Windows">>, <<"Darwin">>, <<"Java">>, <<>>}

\* running nvidia-smi: return code 0, another return code, or no such program
NvidiaSmi == {"0", "nonzero", "FileNotFoundError"}

detect_system_type(system, gpu_required, nvidia_smi) ==
    LET sys_type == lower(system)
    IN  IF contains(<<"linux">>, sys_type) /\ gpu_required
        THEN IF nvidia_smi = "0" THEN linux_gpu ELSE linux_cpu
        ELSE IF sys_type = <<"windows">> /\ gpu_required
        THEN IF nvidia_smi = "0" THEN windows_gpu ELSE windows_cpu
        ELSE sys_type

\* adjust_dependencies with the Windows branch left out of the GPU case
adjust_dependencies_linux_only(deps, st) ==
    LET has_torch == torch \in deps \/ ultralytics \in deps
        d1 == IF has_torch THEN deps \ {torch} ELSE deps
        torch_version ==
            IF endswith(st, <<"gpu">>)
            THEN IF startswith(st, <<"linux">>) THEN torch_cu117 ELSE torch
            ELSE torch_cpu
        a1 == IF has_torch THEN {torch_version} ELSE {}
        has_tv == torchvision \in d1 \/ ultralytics \in d1
        d2 == IF has_tv THEN d1 \ {torchvision} ELSE d1
        torchvision_version ==
            IF endswith(st, <<"gpu">>)
            THEN IF startswith(st, <<"linux">>) THEN torchvision_cu117 ELSE torchvision
            ELSE torchvision_cpu
        a2 == IF has_tv THEN a1 \cup {torchvision_version} ELSE a1
        d3 == d2 \ {ultralytics}
        a3 == IF ultralytics \in d2 THEN a2 \cup {ultralytics} ELSE a2
    IN  [adjusted |-> a3 \cup d3, dependencies |-> d3]

\* adjust_dependencies with ultralytics discarded and not added back
adjust_dependencies_drop(deps, st) ==
    LET has_torch == torch \in deps \/ ultralytics \in deps
        d1 == IF has_torch THEN deps \ {torch} ELSE deps
        torch_version == IF endswith(st, <<"gpu">>) THEN torch_cu117 ELSE torch_cpu
        a1 == IF has_torch THEN {torch_version} ELSE {}
        has_tv == torchvision \in d1 \/ ultralytics \in d1
        d2 == IF has_tv THEN d1 \ {torchvision} ELSE d1
        torchvision_version ==
            IF endswith(st, <<"gpu">>) THEN torchvision_cu117 ELSE torchvision_cpu
        a2 == IF has_tv THEN a1 \cup {torchvision_version} ELSE a1
        d3 == d2 \ {ultralytics}
    IN  [adjusted |-> a2 \cup d3, dependencies |-> d3]

\* returns the adjusted set; `dependencies` is the caller's set after the discards
adjust_dependencies(deps, st) ==
    LET has_torch == torch \in deps \/ ultralytics \in deps
        d1 == IF has_torch THEN deps \ {torch} ELSE deps
        torch_version ==
            IF endswith(st, <<"gpu">>)
            THEN IF startswith(st, <<"linux">>) THEN torch_cu117
                 ELSE IF startswith(st, <<"windows">>) THEN torch_cu117
                 ELSE torch
            ELSE torch_cpu
        a1 == IF has_torch THEN {torch_version} ELSE {}
        has_tv == torchvision \in d1 \/ ultralytics \in d1
        d2 == IF has_tv THEN d1 \ {torchvision} ELSE d1
        torchvision_version ==
            IF endswith(st, <<"gpu">>)
            THEN IF startswith(st, <<"linux">>) THEN torchvision_cu117
                 ELSE IF startswith(st, <<"windows">>) THEN torchvision_cu117
                 ELSE torchvision
            ELSE torchvision_cpu
        a2 == IF has_tv THEN a1 \cup {torchvision_version} ELSE a1
        d3 == d2 \ {ultralytics}
        a3 == IF ultralytics \in d2 THEN a2 \cup {ultralytics} ELSE a2
    IN  [adjusted |-> a3 \cup d3, dependencies |-> d3]

AdjustDependencies ==
    /\ pc = "adjust_dependencies"
    /\ adjusted_dependencies' = adjust_dependencies(validated_dependencies, system_type).adjusted
    /\ validated_dependencies' = adjust_dependencies(validated_dependencies, system_type).dependencies
    /\ pc' = "generate_requirements_txt"
    /\ UNCHANGED <<config, fs, platform_system, walk, python_files, fidx, dependencies, todo,
                   cache, requests, system_type, wtodo, manifest, wstatus>>

---------------------------------------------------------------------------
(* adjust_dependencies on every subset of AdjUniverse and every platform class *)
(* detect_system_type returns.                                                 *)

AdjUniverse == {torch, torchvision, ultralytics, numpy, opencv_python, foo}

InitAdjust ==
    /\ pc = "adjust_dependencies"
    /\ fs = NoFs
    /\ platform_system \in PlatformSystems
    /\ \E gpu \in BOOLEAN : config = [NoConfig EXCEPT !.loaded = TRUE, !.gpu_required = gpu]
    /\ walk = [p |-> 1, i |-> 1]
    /\ python_files = <<>>
    /\ fidx = 1
    /\ dependencies = {}
    /\ todo = {}
    /\ validated_dependencies \in SUBSET AdjUniverse
    /\ cache = EmptyCache
    /\ requests = <<>>
    /\ \E nvidia_smi \in NvidiaSmi :
          system_type = detect_system_type(platform_system, config.gpu_required, nvidia_smi)
    /\ adjusted_dependencies = {}
    /\ wtodo = {}
    /\ manifest = <<>>
    /\ wstatus = "none"

NextAdjust == AdjustDependencies

SpecAdjust == InitAdjust /\ [][NextAdjust]_vars

IsGpuClass(st) == st \in {linux_gpu, windows_gpu}

IsCpuClass(st) == st \in {linux_cpu, windows_cpu}

VariantsRight(in, st, out) ==
    /\ torch \in in =>
          /\ torch_cu117 \in out <=> IsGpuClass(st)
          /\ IsCpuClass(st) => torch_cpu \in out
          /\ torch \notin out
    /\ torchvision \in in =>
          /\ torchvision_cu117 \in out <=> IsGpuClass(st)
          /\ IsCpuClass(st) => torchvision_cpu \in out
          /\ torchvision \notin out

\* C3: for every platform class detect_system_type returns and every input that
\* holds torch or torchvision, the output holds the cu117 variant exactly when
\* the class is a GPU class, the cpu variant when it is a CPU class, and never
\* the bare name.
C3_VariantByPlatformClass ==
    [][pc = "adjust_dependencies" /\ pc' = "generate_requirements_txt"
          => VariantsRight(validated_dependencies, system_type, adjusted_dependencies')]_vars

C3_Witness ==
    /\ pc = "generate_requirements_txt"
    /\ system_type = windows_gpu
    /\ torch_cu117 \in adjusted_dependencies
    /\ torchvision_cu117 \in adjusted_dependencies
    /\ ultralytics \notin adjusted_dependencies

Named == {torch, torchvision}

TorchVariants == {torch_cu117, torch_cpu}

TorchvisionVariants == {torchvision_cu117, torchvision_cpu}

\* C4 as stated: every other input package is in the output, and every output
\* entry is an unchanged input package or the variant of a named package that
\* was in the input.
C4_OnlyNamedPresentChange ==
    [][pc = "adjust_dependencies" /\ pc' = "generate_requirements_txt"
          => /\ \A p \in validated_dependencies \ Named : p \in adjusted_dependencies'
             /\ \A e \in adjusted_dependencies' :
                   \/ e \in validated_dependencies \ Named
                   \/ e \in TorchVariants /\ torch \in validated_dependencies
                   \/ e \in TorchvisionVariants /\ torchvision \in validated_dependencies]_vars

\* C4 amended: every other input package is in the output, and every output
\* entry is an unchanged input package or the variant of a named package that
\* was in the input or is brought in by ultralytics being in the input.
C4_OnlyNamedChange ==
    [][pc = "adjust_dependencies" /\ pc' = "generate_requirements_txt"
          => /\ \A p \in validated_dependencies \ Named : p \in adjusted_dependencies'
             /\ \A e \in adjusted_dependencies' :
                   \/ e \in validated_dependencies \ Named
                   \/ /\ e \in TorchVariants
                      /\ torch \in validated_dependencies \/ ultralytics \in validated_dependencies
                   \/ /\ e \in TorchvisionVariants
                      /\ torchvision \in validated_dependencies
                            \/ ultralytics \in validated_dependencies]_vars

C4_Witness ==
    /\ pc = "generate_requirements_txt"
    /\ adjusted_dependencies = {ultralytics, numpy, torch_cpu, torchvision_cpu}
    /\ system_type = <<"darwin">>

---------------------------------------------------------------------------
(* generate_requirements_txt. *)

\* the text written for one entry, as lines; error: the two-name unpacking of
\* dep.split(' -f ') raises ValueError
render(dep) ==
    IF contains(marker, dep)
    THEN LET parts == split(dep, marker)
         IN  IF Len(parts) # 2
             THEN [error |-> TRUE, lines |-> <<>>]
             ELSE [error |-> FALSE,
                   lines |-> <<strip(parts[1]) \o <<" ", "\\">>,
                               <<"    --find-links ">> \o strip(parts[2])>>]
    ELSE [error |-> FALSE, lines |-> <<dep>>]

\* what a call of the operating system gives
IoOutcomes == {"ok", "OSError"}

\* os.makedirs is outside the try; open is inside it
GenerateEnter ==
    /\ pc = "generate_requirements_txt"
    /\ \E makedirs \in IoOutcomes :
       \E open \in (IF makedirs = "ok" THEN IoOutcomes ELSE {"ok"}) :
          IF makedirs = "OSError"
          THEN /\ pc' = "exception"
               /\ UNCHANGED <<wtodo, manifest, wstatus>>
          ELSE IF open = "OSError"
          THEN /\ pc' = "print"
               /\ wstatus' = "failed"
               /\ UNCHANGED <<wtodo, manifest>>
          ELSE /\ pc' = "write_loop"
               /\ wtodo' = adjusted_dependencies
               /\ manifest' = <<>>
               /\ UNCHANGED wstatus
    /\ UNCHANGED <<config, fs, platform_system, walk, python_files, fidx, dependencies, todo,
                   validated_dependencies, cache, requests, system_type, adjusted_dependencies>>

\* one iteration of the for loop; an exception ends the loop in the except clause
WriteStep ==
    /\ pc = "write_loop"
    /\ \E dep \in wtodo :
       \E write \in (IF render(dep).error THEN {"ok"} ELSE IoOutcomes) :
          IF render(dep).error \/ write = "OSError"
          THEN /\ pc' = "print"
               /\ wstatus' = "failed"
               /\ UNCHANGED <<wtodo, manifest>>
          ELSE /\ manifest' = manifest \o render(dep).lines
               /\ wtodo' = wtodo \ {dep}
               /\ UNCHANGED <<pc, wstatus>>
    /\ UNCHANGED <<config, fs, platform_system, walk, python_files, fidx, dependencies, todo,
                   validated_dependencies, cache, requests, system_type, adjusted_dependencies>>

WriteDone ==
    /\ pc = "write_loop"
    /\ wtodo = {}
    /\ wstatus' = "ok"
    /\ pc' = "print"
    /\ UNCHANGED <<config, fs, platform_system, walk, python_files, fidx, dependencies, todo,
                   validated_dependencies, cache, requests, system_type, adjusted_dependencies,
                   wtodo, manifest>>

---------------------------------------------------------------------------
(* generate_requirements_txt on every set of at most MaxEntries entries that   *)
(* validation and adjustment produce: names, manual mapping values, search     *)
(* candidates (added verbatim) and the variant strings.                        *)

EntryUniverse ==
    {numpy, foo, opencv_python, ultralytics, torch_cu117, torch_cpu, torchvision_cpu, twice}

InitWrite ==
    /\ pc = "generate_requirements_txt"
    /\ config = [NoConfig EXCEPT !.loaded = TRUE]
    /\ fs = NoFs
    /\ platform_system = <<"Linux">>
    /\ walk = [p |-> 1, i |-> 1]
    /\ python_files = <<>>
    /\ fidx = 1
    /\ dependencies = {}
    /\ todo = {}
    /\ validated_dependencies = {}
    /\ cache = EmptyCache
    /\ requests = <<>>
    /\ system_type = <<"linux">>
    /\ adjusted_dependencies \in SetsUpTo(EntryUniverse, MaxEntries)
    /\ wtodo = {}
    /\ manifest = <<>>
    /\ wstatus = "none"

NextWrite == GenerateEnter \/ WriteStep \/ WriteDone

SpecWrite == InitWrite /\ [][NextWrite]_vars

IsContinued(line) == line # <<>> /\ line[Len(line)] = "\\"

IsFindLinks(line) == line # <<>> /\ line[1] = "    --find-links "

\* every line is a bare name, or the first or the second line of a pair
WellFormed(m) ==
    \A i \in DOMAIN m :
        IF IsContinued(m[i])
        THEN i < Len(m) /\ IsFindLinks(m[i + 1]) /\ ~IsContinued(m[i + 1])
        ELSE IsFindLinks(m[i]) => i > 1 /\ IsContinued(m[i - 1])

\* the entry that starts at line i is the one of dep
EntryOf(dep, m, i) ==
    IF \E k \in DOMAIN dep : dep[k] = " -f "
    THEN LET k == Min({j \in DOMAIN dep : dep[j] = " -f "})
         IN  /\ i < Len(m)
             /\ m[i] = strip(SubSeq(dep, 1, k - 1)) \o <<" ", "\\">>
             /\ m[i + 1] = <<"    --find-links ">> \o strip(SubSeq(dep, k + 1, Len(dep)))
    ELSE m[i] = dep

\* C5: once the file is open and an entry has been written, the manifest that
\* generate_requirements_txt leaves consists of bare-name lines and two-line pairs
\* only, and every package handed to it appears in it exactly once, also when an
\* entry holds the marker twice or a write fails midway.
C5_ManifestRoundTrip ==
    pc = "print" /\ manifest # <<>> =>
        /\ WellFormed(manifest)
        /\ \A dep \in adjusted_dependencies :
              Cardinality({i \in DOMAIN manifest : EntryOf(dep, manifest, i)}) = 1

---------------------------------------------------------------------------
(* The file system, os.path, os.listdir and os.walk. *)

\* os.path.join(a, b)
join(a, b) == a \o <<"/">> \o b

LastSlash(path) ==
    IF \E i \in DOMAIN path : path[i] = "/"
    THEN CHOOSE i \in DOMAIN path : path[i] = "/" /\ \A j \in DOMAIN path : path[j] = "/" => j <= i
    ELSE 0

dirname(path) == SubSeq(path, 1, LastSlash(path) - 1)

basename(path) == SubSeq(path, LastSlash(path) + 1, Len(path))

\* a set in the order the operating system lists it: some fixed order
RECURSIVE Listed(_)
Listed(S) ==
    IF S = {} THEN <<>>
    ELSE LET x == CHOOSE y \in S : TRUE IN <<x>> \o Listed(S \ {x})

isdir(path) == path \in fs.dirs

subdirs(top) == {basename(d) : d \in {e \in fs.dirs : dirname(e) = top /\ e # top}}

filenames(top) == {basename(f) : f \in {e \in fs.files : dirname(e) = top}}

\* os.listdir(path): the names of the files and the directories in path
listdir(path) == Listed(filenames(path) \cup subdirs(path))

\* os.walk(top): the directories at and below top, each before its subdirectories;
\* nothing when top is no directory
RECURSIVE os_walk(_)
RECURSIVE walk_each(_, _)
os_walk(top) ==
    IF ~isdir(top) THEN <<>> ELSE <<top>> \o walk_each(top, Listed(subdirs(top)))

walk_each(top, names) ==
    IF names = <<>> THEN <<>>
    ELSE os_walk(join(top, Head(names))) \o walk_each(top, Tail(names))

---------------------------------------------------------------------------
(* find_python_files. *)

is_virtual_env(path) == isdir(join(path, <<"bin">>)) \/ isdir(join(path, <<"Scripts">>))

\* the files of `names` that end in .py, joined to root
RECURSIVE py_files(_, _)
py_files(root, names) ==
    IF names = <<>> THEN <<>>
    ELSE (IF endswith(Head(names), <<".py">>) THEN <<join(root, Head(names))>> ELSE <<>>)
         \o py_files(root, Tail(names))

\* the body of the os.walk loop for one (root, dirs, files): what it appends
visit(root, include_folders, ignore_dirs) ==
    IF (\E ignored \in ignore_dirs : contains(ignored, root)) \/ is_virtual_env(root)
    THEN <<>>
    ELSE IF \E folder \in include_folders : contains(folder, root)
    THEN py_files(root, Listed(filenames(root)))
    ELSE <<>>

\* the files directly in a configured path: what the os.listdir loop appends
RECURSIVE top_level(_, _, _)
top_level(path, names, ignore_dirs) ==
    IF names = <<>> THEN <<>>
    ELSE (IF endswith(Head(names), <<".py">>) /\ join(path, Head(names)) \notin ignore_dirs
          THEN <<join(path, Head(names))>> ELSE <<>>)
         \o top_level(path, Tail(names), ignore_dirs)

FindEnter ==
    /\ pc = "find_python_files"
    /\ python_files' = <<>>
    /\ walk' = [p |-> 1, i |-> 1]
    /\ pc' = "find_loop"
    /\ UNCHANGED <<config, fs, platform_system, fidx, dependencies, todo, validated_dependencies,
                   cache, requests, system_type, adjusted_dependencies, wtodo, manifest, wstatus>>

\* one iteration of `for root, dirs, files in os.walk(path)`
FindWalkStep ==
    /\ pc = "find_loop"
    /\ walk.p <= Len(config.project_paths)
    /\ walk.i <= Len(os_walk(config.project_paths[walk.p]))
    /\ python_files' = python_files
          \o visit(os_walk(config.project_paths[walk.p])[walk.i],
                   config.include_folders, config.ignore_dirs)
    /\ walk' = [walk EXCEPT !.i = @ + 1]
    /\ UNCHANGED <<pc, config, fs, platform_system, fidx, dependencies, todo,
                   validated_dependencies, cache, requests, system_type, adjusted_dependencies,
                   wtodo, manifest, wstatus>>

\* `for file in os.listdir(path)`, after the walk of path; os.listdir raises
\* FileNotFoundError for a path that is no directory, and nothing catches it
FindListdir ==
    /\ pc = "find_loop"
    /\ walk.p <= Len(config.project_paths)
    /\ walk.i > Len(os_walk(config.project_paths[walk.p]))
    /\ IF ~isdir(config.project_paths[walk.p])
       THEN /\ pc' = "exception"
            /\ UNCHANGED <<python_files, walk>>
       ELSE /\ python_files' = python_files
                  \o top_level(config.project_paths[walk.p],
                               listdir(config.project_paths[walk.p]), config.ignore_dirs)
            /\ walk' = [p |-> walk.p + 1, i |-> 1]
            /\ UNCHANGED pc
    /\ UNCHANGED <<config, fs, platform_system, fidx, dependencies, todo, validated_dependencies,
                   cache, requests, system_type, adjusted_dependencies, wtodo, manifest, wstatus>>

FindReturn ==
    /\ pc = "find_loop"
    /\ walk.p > Len(config.project_paths)
    /\ pc' = "extract_dependencies"
    /\ UNCHANGED <<config, fs, platform_system, walk, python_files, fidx, dependencies, todo,
                   validated_dependencies, cache, requests, system_type, adjusted_dependencies,
                   wtodo, manifest, wstatus>>

---------------------------------------------------------------------------
(* find_python_files on a project tree with a source folder, a virtual        *)
(* environment and a build directory, each with a src folder below it.        *)

proj == <<"proj">>
m_py == <<"m", ".py">>
readme == <<"README", ".md">>

TreeDirs ==
    {proj, join(proj, <<"src">>), join(proj, <<"venv">>), join(join(proj, <<"venv">>), <<"src">>),
     join(proj, <<"build">>), join(join(proj, <<"build">>), <<"src">>)}

venv_bin == join(join(proj, <<"venv">>), <<"bin">>)

NoContent == [read |-> "ok", body |-> <<>>]

FindConfigs ==
    {[loaded |-> TRUE, project_paths |-> paths, include_folders |-> inc, ignore_dirs |-> ign,
      gpu_required |-> FALSE] :
        paths \in {<<proj>>, <<join(proj, <<"build">>)>>, <<join(proj, <<"venv">>)>>,
                   <<proj, join(proj, <<"src">>)>>},
        inc \in {{<<"src">>}, {proj}},
        ign \in {{}, {<<"build">>}}}

InitFind ==
    /\ pc = "find_python_files"
    /\ config \in FindConfigs
    /\ \E with_py \in SUBSET TreeDirs, bin \in SUBSET {venv_bin} :
          fs = [dirs |-> TreeDirs \cup bin,
                files |-> {join(d, m_py) : d \in with_py} \cup {join(proj, readme)},
                content |-> [f \in {join(d, m_py) : d \in with_py} \cup {join(proj, readme)}
                                |-> NoContent]]
    /\ platform_system = <<"Linux">>
    /\ dependencies = {}
    /\ Idle

NextFind == FindEnter \/ FindWalkStep \/ FindListdir \/ FindReturn

SpecFind == InitFind /\ [][NextFind]_vars

IsAtOrBelow(d, a) == d = a \/ startswith(d, a \o <<"/">>)

\* C7: no returned path lies in or below a directory whose path contains an
\* ignore_dirs entry, nor in or below a directory that has a bin or Scripts
\* subdirectory.
C7_NoIgnoredNoVenvFiles ==
    pc = "extract_dependencies" =>
        \A k \in DOMAIN python_files :
            /\ ~\E a \in fs.dirs :
                  /\ IsAtOrBelow(dirname(python_files[k]), a)
                  /\ \E ignored \in config.ignore_dirs : contains(ignored, a)
            /\ ~\E a \in fs.dirs :
                  /\ IsAtOrBelow(dirname(python_files[k]), a)
                  /\ \/ join(a, <<"bin">>) \in fs.dirs
                     \/ join(a, <<"Scripts">>) \in fs.dirs

---------------------------------------------------------------------------
(* extract_dependencies. *)

\* the statements of a file, as ast.walk meets them: `import a.b, c`,
\* `from a.b import x`, `from . import x` (module is None), anything else
Import(names) == [type |-> "Import", names |-> names, module |-> None]

ImportFrom(module) == [type |-> "ImportFrom", names |-> <<>>, module |-> module]

Other == [type |-> "Other", names |-> <<>>, module |-> None]

\* the names one statement adds
names_of(n) ==
    IF n.type = "Import"
    THEN {split(n.names[k], <<".">>)[1] : k \in DOMAIN n.names}
    ELSE IF n.type = "ImportFrom" /\ Truthy(n.module)
    THEN {split(n.module, <<".">>)[1]}
    ELSE {}

imports_of(body) == UNION {names_of(body[k]) : k \in DOMAIN body}

ExtractEnter ==
    /\ pc = "extract_dependencies"
    /\ dependencies' = {}
    /\ fidx' = 1
    /\ pc' = "extract_loop"
    /\ UNCHANGED <<config, fs, platform_system, walk, python_files, todo, validated_dependencies,
                   cache, requests, system_type, adjusted_dependencies, wtodo, manifest, wstatus>>

\* one iteration of `for file in python_files`.  Reading and parsing give the
\* tree, a SyntaxError (caught: the file is skipped), or another exception (a
\* ValueError: bytes that are not UTF-8, a null byte), which nothing catches
ExtractStep ==
    /\ pc = "extract_loop"
    /\ fidx <= Len(python_files)
    /\ IF fs.content[python_files[fidx]].read = "ok"
       THEN /\ dependencies' = dependencies \cup imports_of(fs.content[python_files[fidx]].body)
            /\ fidx' = fidx + 1
            /\ UNCHANGED pc
       ELSE IF fs.content[python_files[fidx]].read = "SyntaxError"
       THEN /\ fidx' = fidx + 1
            /\ UNCHANGED <<pc, dependencies>>
       ELSE /\ pc' = "exception"
            /\ UNCHANGED <<fidx, dependencies>>
    /\ UNCHANGED <<config, fs, platform_system, walk, python_files, todo, validated_dependencies,
                   cache, requests, system_type, adjusted_dependencies, wtodo, manifest, wstatus>>

ExtractReturn ==
    /\ pc = "extract_loop"
    /\ fidx > Len(python_files)
    /\ pc' = "filter_dependencies"
    /\ UNCHANGED <<config, fs, platform_system, walk, python_files, fidx, dependencies, todo,
                   validated_dependencies, cache, requests, system_type, adjusted_dependencies,
                   wtodo, manifest, wstatus>>

---------------------------------------------------------------------------
(* extract_dependencies on every list of at most MaxFiles files, each with at  *)
(* most MaxStmts statements or unreadable.                                     *)

os_path == <<"os", ".", "path">>
foo_bar == <<"foo", ".", "bar">>

Statements ==
    {Import(<<os_path, cv2>>), Import(<<numpy>>), ImportFrom(foo_bar), ImportFrom(None), Other}

Contents ==
    {[read |-> "SyntaxError", body |-> <<>>], [read |-> "ValueError", body |-> <<>>]}
    \cup {[read |-> "ok", body |-> b] : b \in SeqsUpTo(Statements, MaxStmts)}

FilePool == {join(proj, m_py), join(join(proj, <<"src">>), m_py)}

InitExtract ==
    /\ pc = "extract_dependencies"
    /\ config = [NoConfig EXCEPT !.loaded = TRUE]
    /\ \E content \in [FilePool -> Contents] :
          fs = [dirs |-> {proj, join(proj, <<"src">>)}, files |-> FilePool, content |-> content]
    /\ platform_system = <<"Linux">>
    /\ walk = [p |-> 1, i |-> 1]
    /\ python_files \in SeqsUpTo(FilePool, MaxFiles)
    /\ fidx = 1
    /\ dependencies = {}
    /\ todo = {}
    /\ validated_dependencies = {}
    /\ cache = EmptyCache
    /\ requests = <<>>
    /\ system_type = <<>>
    /\ adjusted_dependencies = {}
    /\ wtodo = {}
    /\ manifest = <<>>
    /\ wstatus = "none"

NextExtract == ExtractEnter \/ ExtractStep \/ ExtractReturn

SpecExtract == InitExtract /\ [][NextExtract]_vars

\* the dotted names a statement imports
Imported(n) ==
    IF n.type = "Import" THEN {n.names[k] : k \in DOMAIN n.names}
    ELSE IF n.type = "ImportFrom" /\ n.module # None THEN {n.module}
    ELSE {}

\* r is the text of name before its first "."
IsRoot(r, name) ==
    /\ startswith(name, r)
    /\ \A k \in DOMAIN r : r[k] # "."
    /\ Len(r) = Len(name) \/ name[Len(r) + 1] = "."

\* C8: no file stops the extraction, and the returned set holds the root segment
\* of every module imported by every file that parses.
C8_AllRootsExtracted ==
    /\ pc # "exception"
    /\ pc = "filter_dependencies" =>
          \A k \in DOMAIN python_files :
              fs.content[python_files[k]].read = "ok" =>
                  \A j \in DOMAIN fs.content[python_files[k]].body :
                      \A name \in Imported(fs.content[python_files[k]].body[j]) :
                          \E r \in dependencies : IsRoot(r, name)

---------------------------------------------------------------------------
(* filter_dependencies. *)

\* the names line 87 adds, with `sys` and `builtins` of sys.builtin_module_names
standard_lib_modules ==
    {<<n>> : n \in {"collections", "os", "sys", "re", "math", "json", "time", "datetime",
                    "random", "itertools", "functools", "subprocess", "threading", "logging",
                    "multiprocessing", "ctypes", "pickle", "asyncio", "typing", "unittest",
                    "queue", "pathlib", "socket", "email", "string", "struct", "heapq", "copy",
                    "enum", "inspect", "builtins"}}

filter_dependencies(deps) == {dep \in deps : dep \notin standard_lib_modules}

FilterDependencies ==
    /\ pc = "filter_dependencies"
    /\ dependencies' = filter_dependencies(dependencies)
    /\ pc' = "validate_dependencies"
    /\ UNCHANGED <<config, fs, platform_system, walk, python_files, fidx, todo,
                   validated_dependencies, cache, requests, system_type, adjusted_dependencies,
                   wtodo, manifest, wstatus>>

---------------------------------------------------------------------------
(* __main__: the whole run, on a project with two source files. *)

\* load_config: open and yaml.safe_load succeed, or raise (no file, bad YAML)
MainConfigs ==
    {[loaded |-> TRUE, project_paths |-> <<path>>, include_folders |-> {<<"src">>},
      ignore_dirs |-> {}, gpu_required |-> gpu] :
        path \in {proj, <<"nowhere">>}, gpu \in BOOLEAN}

LoadConfig ==
    /\ pc = "load_config"
    /\ \E loaded \in BOOLEAN :
          IF loaded
          THEN /\ config' \in MainConfigs
               /\ pc' = "create_virtual_env"
          ELSE /\ pc' = "exception"
               /\ UNCHANGED config
    /\ UNCHANGED <<fs, platform_system, walk, python_files, fidx, dependencies, todo,
                   validated_dependencies, cache, requests, system_type, adjusted_dependencies,
                   wtodo, manifest, wstatus>>

\* create_virtual_env: `python -m venv venv` succeeds, or fails with
\* CalledProcessError, which is logged and followed by sys.exit(1)
CreateVirtualEnv ==
    /\ pc = "create_virtual_env"
    /\ \E venv \in {"ok", "CalledProcessError"} :
          pc' = IF venv = "ok" THEN "detect_system_type" ELSE "exit1"
    /\ UNCHANGED <<config, fs, platform_system, walk, python_files, fidx, dependencies, todo,
                   validated_dependencies, cache, requests, system_type, adjusted_dependencies,
                   wtodo, manifest, wstatus>>

DetectSystemType ==
    /\ pc = "detect_system_type"
    /\ \E nvidia_smi \in NvidiaSmi :
          system_type' = detect_system_type(platform_system, config.gpu_required, nvidia_smi)
    /\ pc' = "find_python_files"
    /\ UNCHANGED <<config, fs, platform_system, walk, python_files, fidx, dependencies, todo,
                   validated_dependencies, cache, requests, adjusted_dependencies, wtodo,
                   manifest, wstatus>>

PrintDone ==
    /\ pc = "print"
    /\ pc' = "done"
    /\ UNCHANGED <<config, fs, platform_system, walk, python_files, fidx, dependencies, todo,
                   validated_dependencies, cache, requests, system_type, adjusted_dependencies,
                   wtodo, manifest, wstatus>>

MainContents ==
    {[read |-> "ok", body |-> <<Import(<<os_path, cv2>>)>>],
     [read |-> "ok", body |-> <<ImportFrom(foo_bar)>>],
     [read |-> "SyntaxError", body |-> <<>>],
     [read |-> "ValueError", body |-> <<>>]}

Init ==
    /\ pc = "load_config"
    /\ config = NoConfig
    /\ \E content \in [FilePool -> MainContents] :
          fs = [dirs |-> {proj, join(proj, <<"src">>)}, files |-> FilePool, content |-> content]
    /\ platform_system \in PlatformSystems
    /\ dependencies = {}
    /\ Idle

Next ==
    \/ LoadConfig
    \/ CreateVirtualEnv
    \/ DetectSystemType
    \/ FindEnter
    \/ FindWalkStep
    \/ FindListdir
    \/ FindReturn
    \/ ExtractEnter
    \/ ExtractStep
    \/ ExtractReturn
    \/ FilterDependencies
    \/ ValidateEnter
    \/ ValidateStep
    \/ ValidateReturn
    \/ AdjustDependencies
    \/ GenerateEnter
    \/ WriteStep
    \/ WriteDone
    \/ PrintDone

Spec == Init /\ [][Next]_vars

\* C6: once the configuration is loaded nothing aborts the run: it does not exit
\* with status 1 and no exception ends it, whatever virtual-environment creation,
\* directory walking, file reading, index lookups and manifest writing give.
C6_OnlyConfigAborts ==
    config.loaded => pc \notin {"exit1", "exception"}

====
